---- MODULE Spec2Model ----
(***************************************************************************)
(* A model of src/scripts/asset-loader.js: the AssetLoader class, its      *)
(* configuration loader, TTL cache, retry-fetch procedure, two-source      *)
(* fallback and update check.                                              *)
(*                                                                         *)
(* JavaScript runs the class on one thread: the code between two awaits is *)
(* one atomic step.  Every action below is one such step.  A step that     *)
(* ends an inner async function and resumes its awaiting caller is taken   *)
(* together with the caller's continuation: the inner part touches only    *)
(* locals, so it commutes with every other step.                           *)
(*                                                                         *)
(* Values that may be null or undefined in the code are sequences of       *)
(* length at most one: <<>> is null/undefined, <<v>> is the value v.       *)
(*                                                                         *)
(* A GET ends in one of: a 2xx response whose body was read ("ok"), a      *)
(* non-2xx response ("http_error"), or a rejected fetch or body read       *)
(* ("net_error").  Configurations received from the network follow the     *)
(* wire format of the configuration schema (all fields present, numbers    *)
(* non-negative integers).                                                 *)
(***************************************************************************)
EXTENDS Integers, Sequences, FiniteSets, TLC

VARIABLES config, cache, now, call, cfgCall, updCall, lastRet, infoCall, note

vars == <<config, cache, now, call, cfgCall, updCall, lastRet, infoCall, note>>

(***************************************************************************)
(* Bounds of the model.                                                    *)
(***************************************************************************)
\* The clock runs from 0 to MaxNowSec * 1000 ms.
MaxNowSec == 3

\* The loadCSS / fetchWithRetry calls that may be in flight at once.
Procs == {1, 2}

(***************************************************************************)
(* JavaScript values.                                                      *)
(***************************************************************************)
None == <<>>
Some(x) == <<x>>

\* Truthiness of a string-or-undefined / number-or-undefined value.
TruthyStr(o) == o # None /\ o[1] # ""
TruthyNum(o) == o # None /\ o[1] # 0

\* a || b
OrStr(a, b) == IF TruthyStr(a) THEN a ELSE b
OrNum(a, b) == IF TruthyNum(a) THEN a ELSE b

(***************************************************************************)
(* Program constants.                                                      *)
(***************************************************************************)
\* The constructor's this.retryAttempts and this.retryDelay.
retryAttempts == 3
retryDelay == 1000

PopupRawUrl == "https://raw.githubusercontent.com/pokessniper/pokesnipe-assets/main/styles/popup.css"

\* The embedded fallback configuration of loadConfig.
DefaultConfig ==
    [version |-> "1.0.0",
     css |-> [n \in {"popup"} |->
                 [github_raw |-> Some(PopupRawUrl),
                  github_pages |-> None,
                  fallback |-> Some("inline")]],
     cdn_config |-> [primary_host |-> "github_raw",
                     cache_duration |-> 300000,
                     retry_attempts |-> 3,
                     retry_delay |-> 1000],
     update_check_url |-> None]

(***************************************************************************)
(* Inputs: the remote configurations the configuration URL may serve, the  *)
(* asset names a caller may pass, the bodies a GET may return.             *)
(***************************************************************************)
UrlP == "https://raw.example/popup.css"
UrlS == "https://pages.example/popup.css"
UrlT == "https://pages.example/theme.css"
UrlU == "https://raw.example/config.json"

\* Two distinct sources for popup, one (secondary only) for theme.
RemoteA ==
    [version |-> "2.0.0",
     css |-> [n \in {"popup", "theme"} |->
                 IF n = "popup"
                 THEN [github_raw |-> Some(UrlP), github_pages |-> Some(UrlS),
                       fallback |-> None]
                 ELSE [github_raw |-> None, github_pages |-> Some(UrlT),
                       fallback |-> None]],
     cdn_config |-> [primary_host |-> "github_raw",
                     cache_duration |-> 2000,
                     retry_attempts |-> 2,
                     retry_delay |-> 1000],
     update_check_url |-> Some(UrlU)]

\* Both sources of popup are the same URL; zero retry parameters.
RemoteB ==
    [version |-> "2.0.1",
     css |-> [n \in {"popup"} |->
                 [github_raw |-> Some(UrlP), github_pages |-> Some(UrlP),
                  fallback |-> None]],
     cdn_config |-> [primary_host |-> "github_raw",
                     cache_duration |-> 0,
                     retry_attempts |-> 0,
                     retry_delay |-> 0],
     update_check_url |-> None]

RemoteConfigs == {RemoteA, RemoteB}

AssetNames == {"popup", "theme", "constructor"}

Bodies == {"", "a", "b"}
PlainBodies == {"", "a"}

Versions == {"1.0.0", "2.0.0", "2.0.1"}

\* Steps by which the clock advances.
TickSteps == {1000}

\* Outcomes of one GET of an asset.
GetOutcomes(bodies) ==
    [kind : {"ok"}, body : bodies] \cup
    [kind : {"http_error", "net_error"}, body : {""}]

\* Outcomes of the GET of loadConfig: the JSON body of a 2xx response is a
\* configuration, or cannot be decoded.
ConfigOutcomes(remotes) ==
    [kind : {"ok"}, json : {Some(c) : c \in remotes}] \cup
    [kind : {"bad_json", "http_error", "net_error"}, json : {None}]

\* Outcomes of the GET of checkForUpdates.
UpdateOutcomes ==
    [kind : {"ok"}, version : Versions] \cup
    [kind : {"bad_json", "http_error", "net_error"}, version : {""}]

\* Per-call overrides of fetchWithRetry's attempts parameter.
AttemptOverrides == {None, Some(0), Some(2)}

(***************************************************************************)
(* Object and Map operations.                                              *)
(***************************************************************************)
\* Properties every object inherits from Object.prototype (all of them
\* functions, hence truthy, with no github_raw or github_pages of their own).
ObjectPrototypeKeys ==
    {"constructor", "toString", "valueOf", "hasOwnProperty",
     "isPrototypeOf", "propertyIsEnumerable", "toLocaleString"}

InheritedMember == [github_raw |-> None, github_pages |-> None, fallback |-> None]

\* obj[name] on the css object of a configuration: an own property, else an
\* inherited one, else undefined.
Lookup(css, name) ==
    IF name \in DOMAIN css THEN Some(css[name])
    ELSE IF name \in ObjectPrototypeKeys THEN Some(InheritedMember)
    ELSE None

\* `css_${assetName}`
CacheKey(assetName) == "css_" \o assetName

\* this.cache.has(key), .get(key), .set(key, entry), .clear()
CacheHas(c, key) == key \in DOMAIN c
CacheGet(c, key) == c[key]
\* (Mutants: set keeps an entry that is already there; set drops the other
\* keys.)
CacheSetIfAbsent(c, key, entry) ==
    [k \in DOMAIN c \cup {key} |-> IF k \in DOMAIN c THEN c[k] ELSE entry]
CacheSetAlone(c, key, entry) == [k \in {key} |-> entry]
\* (Mutant: set writes nothing.)
CacheSetNothing(c, key, entry) == c

CacheSet(c, key, entry) ==
    [k \in DOMAIN c \cup {key} |-> IF k = key THEN entry ELSE c[k]]
EmptyCache == [k \in {} |-> None]

\* (Mutant: clear leaves the entries.)
CacheClearNothing(c) == c

\* this.cache.clear()
CacheClear(c) == EmptyCache

\* (Mutants: the comparison reversed; the boundary taken as fresh; no entry
\* taken as fresh.)
IsFreshReversed(entry, t, cfg) == t - entry.timestamp > cfg.cdn_config.cache_duration
IsFreshNever(entry, t, cfg) == FALSE
IsFreshAtBoundary(entry, t, cfg) == t - entry.timestamp <= cfg.cdn_config.cache_duration

\* Date.now() - cached.timestamp < this.config.cdn_config.cache_duration
IsFresh(entry, t, cfg) == t - entry.timestamp < cfg.cdn_config.cache_duration

\* The URL a fetch(url) request goes to: undefined is converted to a string.
RequestUrl(url) == IF url = None THEN "undefined" ELSE url[1]

(***************************************************************************)
(* The state of one loadCSS or fetchWithRetry call.                        *)
(***************************************************************************)
NoSources == [github_raw |-> None, github_pages |-> None, fallback |-> None]
NoResult == [kind |-> "none", content |-> ""]

IdleCall ==
    [pc |-> "idle",          \* idle, fetch (awaiting a response), sleep, done
     op |-> "none",          \* loadCSS or fetchWithRetry
     assetName |-> "",
     cssConfig |-> NoSources,
     primaryUrl |-> None,
     phase |-> "none",       \* primary, fallback, or direct (fetchWithRetry)
     url |-> None,           \* fetchWithRetry's url and attempts parameters
     attempts |-> None,
     maxAttempts |-> 0,      \* fetchWithRetry's maxAttempts, delay and i
     delay |-> 0,
     i |-> 0,
     sleepMs |-> 0,          \* the pending backoff timer: its delay, and
     wakeAt |-> 0,           \*   when it is due
     result |-> NoResult,
     \* The GETs the call has issued, in order (read by the properties only):
     log |-> <<>>]

\* One GET of the log.
LogEntry(c, wait) ==
    [url |-> RequestUrl(c.url), phase |-> c.phase, i |-> c.i,
     maxAttempts |-> c.maxAttempts, delay |-> c.delay,
     wait |-> wait, status |-> "pending", body |-> ""]

\* fetch(url) at attempt c.i, after a backoff of `wait` ms (0: none).
IssueGet(c, wait) ==
    [c EXCEPT !.pc = "fetch", !.log = Append(@, LogEntry(c, wait))]

\* The pending GET of the log ends.
CloseGet(c, outcome) ==
    [c EXCEPT !.log[Len(c.log)].status =
                  IF outcome.kind = "ok" THEN "ok" ELSE "fail",
              !.log[Len(c.log)].body = outcome.body]

(***************************************************************************)
(* fetchWithRetry and the rest of loadCSS.  Each operator gives the call   *)
(* record and the cache after the step.                                    *)
(***************************************************************************)
\* const maxAttempts = attempts || config?.cdn_config?.retry_attempts || this.retryAttempts
MaxAttemptsOf(attempts, cfg) ==
    OrNum(OrNum(attempts,
                IF cfg = None THEN None ELSE Some(cfg[1].cdn_config.retry_attempts)),
          Some(retryAttempts))[1]

\* const delay = config?.cdn_config?.retry_delay || this.retryDelay
DelayOf(cfg) ==
    OrNum(IF cfg = None THEN None ELSE Some(cfg[1].cdn_config.retry_delay),
          Some(retryDelay))[1]

\* (Mutant: the wait scaled by the attempt's index.)
BackoffByIndex(delay, i) == delay * i

\* setTimeout(resolve, delay * (i + 1))
Backoff(delay, i) == delay * (i + 1)

\* (Mutants: one iteration too many; twice as many iterations.)
LoopTestInclusive(i, maxAttempts) == i <= maxAttempts
LoopTestTwice(i, maxAttempts) == i < 2 * maxAttempts

\* for (let i = 0; i < maxAttempts; i++)
LoopTest(i, maxAttempts) == i < maxAttempts

\* if (i < maxAttempts - 1): wait before the retry
WaitsAfter(i, maxAttempts) == i < maxAttempts - 1

\* (Mutant: a failed load evicts the entry it could not refresh.)
FinishEvicting(c, content, cch, t) ==
    IF TruthyStr(content)
    THEN [call |-> [c EXCEPT !.pc = "done",
                             !.result = [kind |-> "ok", content |-> content[1]]],
          cache |-> CacheSet(cch, CacheKey(c.assetName),
                             [content |-> content[1], timestamp |-> t])]
    ELSE [call |-> [c EXCEPT !.pc = "done",
                             !.result = [kind |-> "AssetLoadError", content |-> ""]],
          cache |-> [k \in DOMAIN cch \ {CacheKey(c.assetName)} |-> cch[k]]]

\* if (cssContent) { cache.set(...); return cssContent } throw new Error(...)
Finish(c, content, cch, t) ==
    IF TruthyStr(content)
    THEN [call |-> [c EXCEPT !.pc = "done",
                             !.result = [kind |-> "ok", content |-> content[1]]],
          cache |-> CacheSet(cch, CacheKey(c.assetName),
                             [content |-> content[1], timestamp |-> t])]
    ELSE [call |-> [c EXCEPT !.pc = "done",
                             !.result = [kind |-> "AssetLoadError", content |-> ""]],
          cache |-> cch]

\* fetchWithRetry called directly returns the text or null to its caller.
ReturnDirect(c, content, cch) ==
    [call |-> [c EXCEPT !.pc = "done",
                        !.result = IF content = None
                                   THEN [kind |-> "null", content |-> ""]
                                   ELSE [kind |-> "text", content |-> content[1]]],
     cache |-> cch]

\* Entry of fetchWithRetry(url, attempts) up to its first await.
EnterRetry(c, url, attempts, cfg) ==
    [c EXCEPT !.url = url,
              !.attempts = attempts,
              !.maxAttempts = MaxAttemptsOf(attempts, cfg),
              !.delay = DelayOf(cfg),
              !.i = 0]

\* const fallbackUrl = github_pages === primaryUrl ? github_raw : github_pages
FallbackUrl(c) ==
    IF c.cssConfig.github_pages = c.primaryUrl
    THEN c.cssConfig.github_raw
    ELSE c.cssConfig.github_pages

\* if (!cssContent && cssConfig.github_pages && cssConfig.github_raw)
TriesFallback(c, content) ==
    /\ ~TruthyStr(content)
    /\ TruthyStr(c.cssConfig.github_pages)
    /\ TruthyStr(c.cssConfig.github_raw)

\* cssContent = await this.fetchWithRetry(fallbackUrl) and what follows.
StartFallback(c, cfg, cch, t) ==
    LET e == EnterRetry([c EXCEPT !.phase = "fallback"], FallbackUrl(c), None, cfg)
    IN  IF LoopTest(e.i, e.maxAttempts)
        THEN [call |-> IssueGet(e, 0), cache |-> cch]
        ELSE Finish(e, None, cch, t)

\* A retry-fetch run returned `content` (null or the text): the awaiting
\* code goes on.
Resume(c, content, cfg, cch, t) ==
    IF c.op = "fetchWithRetry" THEN ReturnDirect(c, content, cch)
    ELSE IF c.phase = "primary" /\ TriesFallback(c, content)
         THEN StartFallback(c, cfg, cch, t)
         ELSE Finish(c, content, cch, t)

\* A run starts: the loop's first fetch, or null at once if the loop is empty.
StartRun(c, url, attempts, cfg, cch, t) ==
    LET e == EnterRetry(c, url, attempts, cfg)
    IN  IF LoopTest(e.i, e.maxAttempts)
        THEN [call |-> IssueGet(e, 0), cache |-> cch]
        ELSE Resume(e, None, cfg, cch, t)

\* i++ and the loop's test: the next fetch, after a backoff of `wait` ms
\* (0: none), or return null.
NextIteration(c, wait, cfg, cch, t) ==
    LET e == [c EXCEPT !.i = c.i + 1, !.sleepMs = 0, !.wakeAt = 0]
    IN  IF LoopTest(e.i, e.maxAttempts)
        THEN [call |-> IssueGet(e, wait), cache |-> cch]
        ELSE Resume(e, None, cfg, cch, t)

\* const primaryUrl = cssConfig.github_raw || cssConfig.github_pages
PrimaryUrl(cssConfig) == OrStr(cssConfig.github_raw, cssConfig.github_pages)

(***************************************************************************)
(* The state after construction.                                           *)
(***************************************************************************)
IdleConfigCall == [pc |-> "idle", ret |-> None, outcome |-> "none"]
IdleUpdateCall ==
    [pc |-> "idle", ret |-> FALSE, gets |-> 0, outcome |-> "none",
     remoteVersion |-> ""]

IdleInfoCall == [pc |-> "idle", ret |-> {}]

\* What an observer has noted of the last clearCache and of the last
\* loadConfig (kept by the Noted actions only): whether the cache was cleared;
\* the assets whose fresh entries the clear removed while no call was in
\* flight; the first two loadCSS calls started since, and the assets of all
\* of them; the cache as it was when loadConfig last replaced the
\* configuration by a different one, and the version it replaced.
NoNote ==
    [cleared |-> FALSE, wiped |-> {}, started |-> <<>>, loaded |-> {},
     old |-> EmptyCache, oldVersion |-> ""]

Init ==
    /\ config = None
    /\ cache = EmptyCache
    /\ now = 0
    /\ call = [p \in Procs |-> IdleCall]
    /\ cfgCall = IdleConfigCall
    /\ updCall = IdleUpdateCall
    /\ lastRet = None
    /\ infoCall = IdleInfoCall
    /\ note = NoNote

(***************************************************************************)
(* loadCSS and fetchWithRetry.                                             *)
(***************************************************************************)
\* A call that has ended is seen in its "done" state at the instant it
\* returns, and nothing else happens at that instant.
NoneDone ==
    /\ \A p \in Procs : call[p].pc # "done"
    /\ cfgCall.pc # "done"
    /\ updCall.pc # "done"
    /\ infoCall.pc # "done"

\* The step of call p ends with the call record and cache of `eff`.
Apply(p, eff) ==
    /\ call' = [call EXCEPT ![p] = eff.call]
    /\ cache' = eff.cache
    /\ UNCHANGED lastRet

\* The record of a starting loadCSS(assetName) call.
NewCall(assetName) == [IdleCall EXCEPT !.op = "loadCSS", !.assetName = assetName]

\* loadCSS(assetName), from the call to its first await or its end.
LoadCSSStep(c, assetName, cfg, cch, t) ==
    IF cfg = None
    THEN [call |-> [c EXCEPT !.pc = "done",
                             !.result = [kind |-> "NotConfiguredError", content |-> ""]],
          cache |-> cch]
    ELSE LET cssConfig == Lookup(cfg[1].css, assetName)
             cacheKey == CacheKey(assetName)
         IN  IF cssConfig = None
             THEN [call |-> [c EXCEPT !.pc = "done",
                                      !.result = [kind |-> "AssetNotFoundError",
                                                  content |-> ""]],
                   cache |-> cch]
             ELSE IF CacheHas(cch, cacheKey) /\ IsFresh(CacheGet(cch, cacheKey), t, cfg[1])
             THEN [call |-> [c EXCEPT !.pc = "done",
                                      !.result = [kind |-> "ok",
                                                  content |-> CacheGet(cch, cacheKey).content]],
                   cache |-> cch]
             ELSE StartRun([c EXCEPT !.cssConfig = cssConfig[1],
                                     !.primaryUrl = PrimaryUrl(cssConfig[1]),
                                     !.phase = "primary"],
                           PrimaryUrl(cssConfig[1]), None, cfg, cch, t)

LoadCSS(p, assetName) ==
    /\ NoneDone
    /\ call[p].pc = "idle"
    /\ Apply(p, LoadCSSStep(NewCall(assetName), assetName, config, cache, now))
    /\ UNCHANGED <<config, now, cfgCall, updCall, infoCall, note>>

\* fetchWithRetry(url, attempts) called directly.
FetchWithRetry(p, url, attempts) ==
    /\ NoneDone
    /\ call[p].pc = "idle"
    /\ Apply(p, StartRun([IdleCall EXCEPT !.op = "fetchWithRetry",
                                          !.phase = "direct"],
                         Some(url), attempts, config, cache, now))
    /\ UNCHANGED <<config, now, cfgCall, updCall, infoCall, note>>

\* The response to the pending fetch(url) of call p arrives.
FetchStep(c, outcome, cfg, cch, t) ==
    LET d == CloseGet(c, outcome)
    IN  IF outcome.kind = "ok"
        THEN Resume(d, Some(outcome.body), cfg, cch, t)
        ELSE IF WaitsAfter(d.i, d.maxAttempts)
             THEN [call |-> [d EXCEPT !.pc = "sleep",
                                      !.sleepMs = Backoff(d.delay, d.i),
                                      !.wakeAt = t + Backoff(d.delay, d.i)],
                   cache |-> cch]
             ELSE NextIteration(d, 0, cfg, cch, t)

FetchResponse(p, outcome) ==
    /\ NoneDone
    /\ call[p].pc = "fetch"
    /\ Apply(p, FetchStep(call[p], outcome, config, cache, now))
    /\ UNCHANGED <<config, now, cfgCall, updCall, infoCall, note>>

\* The backoff timer of call p fires: the loop's next iteration.
TimerFires(p) ==
    /\ NoneDone
    /\ call[p].pc = "sleep"
    /\ now >= call[p].wakeAt
    /\ Apply(p, NextIteration(call[p], call[p].sleepMs, config, cache, now))
    /\ UNCHANGED <<config, now, cfgCall, updCall, infoCall, note>>

\* The caller has the result of call p; the slot is free for the next call.
Return(p) ==
    /\ call[p].pc = "done"
    /\ call' = [call EXCEPT ![p] = IdleCall]
    /\ UNCHANGED <<config, cache, now, cfgCall, updCall, lastRet, infoCall, note>>

\* The same, by a caller that notes in lastRet the content the last loadCSS
\* call returned and when (clearCache forgets the note).
NotedReturn(p) ==
    /\ call[p].pc = "done"
    /\ call' = [call EXCEPT ![p] = IdleCall]
    /\ lastRet' = IF call[p].op = "loadCSS" /\ call[p].result.kind = "ok"
                  THEN Some([assetName |-> call[p].assetName,
                             content |-> call[p].result.content, at |-> now])
                  ELSE lastRet
    /\ UNCHANGED <<config, cache, now, cfgCall, updCall, infoCall, note>>

(***************************************************************************)
(* loadConfig.                                                             *)
(***************************************************************************)
\* loadConfig(configUrl) up to await fetch(configUrl).
LoadConfig ==
    /\ NoneDone
    /\ cfgCall.pc = "idle"
    /\ cfgCall' = [IdleConfigCall EXCEPT !.pc = "fetch"]
    /\ UNCHANGED <<config, cache, now, call, updCall, lastRet, infoCall, note>>

\* (Mutant: a body that cannot be decoded is not replaced by the default.)
ResolvedConfigUndecoded(outcome) ==
    IF outcome.kind \in {"ok", "bad_json"} THEN outcome.json ELSE Some(DefaultConfig)

\* The configuration loadConfig stores and returns for an outcome of its GET.
ResolvedConfig(outcome) ==
    IF outcome.kind = "ok" THEN outcome.json ELSE Some(DefaultConfig)

\* (Mutant: a failed reload keeps the configuration that was active.)
StoredConfigKept(outcome, cfg) ==
    IF outcome.kind = "ok" THEN outcome.json
    ELSE IF cfg # None THEN cfg ELSE Some(DefaultConfig)

\* this.config = ... : the value of this.config after loadConfig's assignment.
StoredConfig(outcome, cfg) == ResolvedConfig(outcome)

LoadConfigResponse(outcome) ==
    /\ NoneDone
    /\ cfgCall.pc = "fetch"
    /\ config' = StoredConfig(outcome, config)
    /\ cfgCall' = [pc |-> "done", ret |-> ResolvedConfig(outcome),
                   outcome |-> outcome.kind]
    /\ UNCHANGED <<cache, now, call, updCall, lastRet, infoCall, note>>

LoadConfigReturn ==
    /\ cfgCall.pc = "done"
    /\ cfgCall' = IdleConfigCall
    /\ UNCHANGED <<config, cache, now, call, updCall, lastRet, infoCall, note>>

(***************************************************************************)
(* checkForUpdates.                                                        *)
(***************************************************************************)
\* checkForUpdates() up to await fetch(configUrl), or to its early return.
CheckStart(cfg) ==
    IF cfg = None THEN [IdleUpdateCall EXCEPT !.pc = "done", !.ret = FALSE]
    ELSE IF ~TruthyStr(cfg[1].update_check_url)
         THEN [IdleUpdateCall EXCEPT !.pc = "done", !.ret = FALSE]
         ELSE [IdleUpdateCall EXCEPT !.pc = "fetch", !.gets = 1]

CheckForUpdates ==
    /\ NoneDone
    /\ updCall.pc = "idle"
    /\ updCall' = CheckStart(config)
    /\ UNCHANGED <<config, cache, now, call, cfgCall, lastRet, infoCall, note>>

\* (Mutant: true when the versions are equal.)
CheckResultEqual(outcome, cfg) ==
    IF outcome.kind = "ok" THEN outcome.version = cfg[1].version ELSE FALSE

\* return latestConfig.version !== this.config.version, or false
CheckResult(outcome, cfg) ==
    IF outcome.kind = "ok" THEN outcome.version # cfg[1].version ELSE FALSE

CheckResponse(outcome) ==
    /\ NoneDone
    /\ updCall.pc = "fetch"
    /\ updCall' = [updCall EXCEPT !.pc = "done",
                                  !.ret = CheckResult(outcome, config),
                                  !.outcome = outcome.kind,
                                  !.remoteVersion = outcome.version]
    /\ UNCHANGED <<config, cache, now, call, cfgCall, lastRet, infoCall, note>>

CheckReturn ==
    /\ updCall.pc = "done"
    /\ updCall' = IdleUpdateCall
    /\ UNCHANGED <<config, cache, now, call, cfgCall, lastRet, infoCall, note>>

(***************************************************************************)
(* clearCache, and the clock.                                              *)
(***************************************************************************)
ClearCache ==
    /\ NoneDone
    /\ cache' = CacheClear(cache)
    /\ lastRet' = None
    /\ UNCHANGED <<config, now, call, cfgCall, updCall, infoCall, note>>

Tick(d) ==
    /\ NoneDone
    /\ now + d <= MaxNowSec * 1000
    /\ now' = now + d
    /\ UNCHANGED <<config, cache, call, cfgCall, updCall, lastRet, infoCall, note>>

(***************************************************************************)
(* getCacheInfo.                                                           *)
(***************************************************************************)
\* Array.from(this.cache.entries()).map(([key, value]) => ({key, size, age})),
\* as the set of its elements.
CacheInfo(cch, t) ==
    {[key |-> k, size |-> Len(cch[k].content), age |-> t - cch[k].timestamp] :
        k \in DOMAIN cch}

GetCacheInfo ==
    /\ NoneDone
    /\ infoCall' = [pc |-> "done", ret |-> CacheInfo(cache, now)]
    /\ UNCHANGED <<config, cache, now, call, cfgCall, updCall, lastRet, note>>

GetCacheInfoReturn ==
    /\ infoCall.pc = "done"
    /\ infoCall' = IdleInfoCall
    /\ UNCHANGED <<config, cache, now, call, cfgCall, updCall, lastRet, note>>

(***************************************************************************)
(* Spec: one caller that awaits each call before the next, every operation *)
(* of the class, every configuration and asset name.                       *)
(***************************************************************************)
Next ==
    \/ \E n \in AssetNames : LoadCSS(1, n)
    \/ \E a \in AttemptOverrides : FetchWithRetry(1, UrlP, a)
    \/ \E o \in GetOutcomes(PlainBodies) : FetchResponse(1, o)
    \/ TimerFires(1)
    \/ Return(1)
    \/ LoadConfig
    \/ \E o \in ConfigOutcomes(RemoteConfigs) : LoadConfigResponse(o)
    \/ LoadConfigReturn
    \/ CheckForUpdates
    \/ \E o \in UpdateOutcomes : CheckResponse(o)
    \/ CheckReturn
    \/ ClearCache
    \/ GetCacheInfo
    \/ GetCacheInfoReturn
    \/ \E d \in TickSteps : Tick(d)

Spec == Init /\ [][Next]_vars

(***************************************************************************)
(* SharedSpec: two callers whose loadCSS("popup") calls overlap, with      *)
(* distinguishable bodies.                                                 *)
(***************************************************************************)
SharedNext ==
    \/ \E p \in Procs : LoadCSS(p, "popup")
    \/ \E p \in Procs, o \in GetOutcomes(Bodies) : FetchResponse(p, o)
    \/ \E p \in Procs : TimerFires(p)
    \/ \E p \in Procs : NotedReturn(p)
    \/ LoadConfig
    \/ \E o \in ConfigOutcomes({RemoteA}) : LoadConfigResponse(o)
    \/ LoadConfigReturn
    \/ ClearCache
    \/ \E d \in TickSteps : Tick(d)

SharedSpec == Init /\ [][SharedNext]_vars

(***************************************************************************)
(* ClearSpec: two callers of loadCSS and a clearCache under the remote     *)
(* configuration A, with an observer that notes at each clear which fresh  *)
(* entries it removed while no call was in flight, and the calls started   *)
(* since.                                                                  *)
(***************************************************************************)
\* A loadCSS call is suspended at a fetch or a backoff.
InFlight == \E p \in Procs : call[p].pc \in {"fetch", "sleep"}

\* The assets that have a fresh entry in the cache.
FreshNames ==
    {n \in AssetNames :
        /\ config # None
        /\ CacheHas(cache, CacheKey(n))
        /\ IsFresh(CacheGet(cache, CacheKey(n)), now, config[1])}

\* clearCache(), noted.
NotedClearCache ==
    /\ NoneDone
    /\ cache' = CacheClear(cache)
    /\ lastRet' = None
    /\ note' = [note EXCEPT !.cleared = TRUE,
                            !.wiped = IF InFlight THEN {} ELSE FreshNames,
                            !.started = <<>>,
                            !.loaded = {}]
    /\ UNCHANGED <<config, now, call, cfgCall, updCall, infoCall>>

\* loadCSS(assetName), noted (the first two calls after a clear).
NotedLoadCSS(p, assetName) ==
    /\ NoneDone
    /\ call[p].pc = "idle"
    /\ Apply(p, LoadCSSStep(NewCall(assetName), assetName, config, cache, now))
    /\ note' = [note EXCEPT !.started = IF note.cleared /\ Len(@) < 2
                                        THEN Append(@, assetName) ELSE @,
                            !.loaded = IF note.cleared
                                       THEN @ \cup {assetName} ELSE @]
    /\ UNCHANGED <<config, now, cfgCall, updCall, infoCall>>

ClearNext ==
    \/ \E p \in Procs, n \in {"popup", "theme"} : NotedLoadCSS(p, n)
    \/ \E p \in Procs, o \in GetOutcomes({"a"}) : FetchResponse(p, o)
    \/ \E p \in Procs : TimerFires(p)
    \/ \E p \in Procs : Return(p)
    \/ LoadConfig
    \/ LoadConfigResponse([kind |-> "ok", json |-> Some(RemoteA)])
    \/ LoadConfigReturn
    \/ NotedClearCache
    \/ \E d \in TickSteps : Tick(d)

ClearSpec == Init /\ [][ClearNext]_vars

(***************************************************************************)
(* ReloadSpec: one caller of loadCSS and reloads of the configuration,     *)
(* with an observer that notes, when a reload replaces the configuration   *)
(* by a different one, the cache as it is then and the version replaced.   *)
(***************************************************************************)
NotedLoadConfigResponse(outcome) ==
    /\ NoneDone
    /\ cfgCall.pc = "fetch"
    /\ config' = StoredConfig(outcome, config)
    /\ cfgCall' = [pc |-> "done", ret |-> ResolvedConfig(outcome),
                   outcome |-> outcome.kind]
    /\ note' = IF config # None /\ StoredConfig(outcome, config) # config
               THEN [note EXCEPT !.old = cache, !.oldVersion = config[1].version]
               ELSE note
    /\ UNCHANGED <<cache, now, call, updCall, lastRet, infoCall>>

ReloadNext ==
    \/ \E n \in {"popup", "theme"} : LoadCSS(1, n)
    \/ \E o \in GetOutcomes({"a"}) : FetchResponse(1, o)
    \/ TimerFires(1)
    \/ Return(1)
    \/ LoadConfig
    \/ \E o \in ConfigOutcomes(RemoteConfigs) : NotedLoadConfigResponse(o)
    \/ LoadConfigReturn
    \/ \E d \in TickSteps : Tick(d)

ReloadSpec == Init /\ [][ReloadNext]_vars

(***************************************************************************)
(* LiveSpec: one caller of loadCSS, with the assumptions under which a     *)
(* call ends: every pending GET completes, time passes, and every backoff  *)
(* timer that is due fires.  Calls start while the clock is in its range;  *)
(* the clock runs on past the range while a timer is pending, so that      *)
(* every timer comes due.  The fairness is strong because each of these    *)
(* steps is disabled at the instants another call returns; a call that has *)
(* ended does return to its caller.                                        *)
(***************************************************************************)
LiveLoadCSS(p, assetName) ==
    /\ now <= MaxNowSec * 1000
    /\ LoadCSS(p, assetName)

LiveTick(d) ==
    /\ NoneDone
    /\ \/ now + d <= MaxNowSec * 1000
       \/ \E p \in Procs : call[p].pc = "sleep" /\ call[p].wakeAt > now
    /\ now' = now + d
    /\ UNCHANGED <<config, cache, call, cfgCall, updCall, lastRet, infoCall, note>>

LiveNext ==
    \/ \E n \in {"popup", "theme"} : LiveLoadCSS(1, n)
    \/ \E o \in GetOutcomes({"a"}) : FetchResponse(1, o)
    \/ TimerFires(1)
    \/ Return(1)
    \/ LoadConfig
    \/ \E o \in ConfigOutcomes(RemoteConfigs) : LoadConfigResponse(o)
    \/ LoadConfigReturn
    \/ \E d \in TickSteps : LiveTick(d)

LiveSpec ==
    /\ Init
    /\ [][LiveNext]_vars
    /\ SF_vars(\E o \in GetOutcomes({"a"}) : FetchResponse(1, o))
    /\ SF_vars(TimerFires(1))
    /\ SF_vars(\E d \in TickSteps : LiveTick(d))
    /\ WF_vars(Return(1))
    /\ WF_vars(LoadConfigReturn)

(***************************************************************************)
(* Properties.                                                             *)
(***************************************************************************)
\* Call p starts in this step as loadCSS(n).
Starts(p, n) ==
    /\ call[p].pc = "idle"
    /\ call'[p].pc # "idle"
    /\ call'[p].op = "loadCSS"
    /\ call'[p].assetName = n

\* The preconditions of loadAsset(n) hold: a configuration is active and n is
\* one of its css assets.
Configured(n) == config # None /\ n \in DOMAIN config[1].css

\* The cache holds an entry for n of age below / at least cacheDurationMs.
HasFresh(n) ==
    /\ config # None
    /\ ("css_" \o n) \in DOMAIN cache
    /\ now - cache["css_" \o n].timestamp < config[1].cdn_config.cache_duration

HasStale(n) ==
    /\ config # None
    /\ ("css_" \o n) \in DOMAIN cache
    /\ now - cache["css_" \o n].timestamp >= config[1].cdn_config.cache_duration

\* The call ends at once with `content`, having issued no GET.
ServedFromCache(c, content) ==
    /\ c.pc = "done"
    /\ c.result = [kind |-> "ok", content |-> content]
    /\ c.log = <<>>

\* C1 as stated: a loadAsset(n) call made less than cacheDurationMs after
\* the previous loadAsset(n) call returned its content, with no clearCache
\* and no other load in between, issues no GET and returns the same content.
C1_TwiceWithinDuration ==
    [][\A p \in Procs, n \in AssetNames :
          ( /\ Starts(p, n)
            /\ Configured(n)
            /\ lastRet # None
            /\ lastRet[1].assetName = n
            /\ now - lastRet[1].at < config[1].cdn_config.cache_duration )
          => ServedFromCache(call'[p], lastRet[1].content)]_vars

\* C1, amended (cache-hit purity): a loadAsset(n) call made after the
\* previous loadAsset(n) call returned its content, with no clearCache and
\* no other load in between, while the age of the cache entry (counted from
\* the moment the content was stored) is below cacheDurationMs, issues no
\* GET and returns the same content.
C1_CacheHitPurity ==
    [][\A p \in Procs, n \in AssetNames :
          ( /\ Starts(p, n)
            /\ Configured(n)
            /\ lastRet # None
            /\ lastRet[1].assetName = n
            /\ HasFresh(n) )
          => ServedFromCache(call'[p], lastRet[1].content)]_vars

\* A call has just been served from an entry stored earlier, after a call
\* for the same asset had returned that content.
C1_Witness ==
    \E p \in Procs :
        /\ call[p].pc = "done"
        /\ call[p].result.kind = "ok"
        /\ call[p].log = <<>>
        /\ lastRet # None
        /\ lastRet[1].assetName = call[p].assetName
        /\ lastRet[1].content = call[p].result.content
        /\ cache["css_" \o call[p].assetName].timestamp < now

\* C2 (cache expiry): a loadAsset(n) call whose preconditions hold and that
\* finds an entry for n of age at least cacheDurationMs (the boundary
\* included) issues a GET before it returns or fails: after its first step
\* a GET is pending, and it has not ended.
C2_CacheExpiry ==
    [][\A p \in Procs, n \in AssetNames :
          (Starts(p, n) /\ Configured(n) /\ HasStale(n))
          => /\ call'[p].pc = "fetch"
             /\ Len(call'[p].log) = 1
             /\ call'[p].log[1].status = "pending"]_vars

\* A GET is pending for an asset whose entry, stored by an earlier
\* successful fetch, has exactly the age cacheDurationMs.
C2_Witness ==
    /\ call[1].pc = "fetch"
    /\ call[1].op = "loadCSS"
    /\ Len(call[1].log) = 1
    /\ Configured(call[1].assetName)
    /\ HasStale(call[1].assetName)
    /\ config[1].cdn_config.cache_duration > 0
    /\ now - cache["css_" \o call[1].assetName].timestamp
          = config[1].cdn_config.cache_duration

\* The GETs of the log of c that belong to the retry-fetch run `ph`, and the
\* GETs sent to `u`.
RunOf(c, ph) == {k \in 1..Len(c.log) : c.log[k].phase = ph}
GetsOn(c, u) == {k \in 1..Len(c.log) : c.log[k].url = u}

\* Both sources of the call's asset are configured, and they differ.
TwoSources(c) ==
    /\ TruthyStr(c.cssConfig.github_raw)
    /\ TruthyStr(c.cssConfig.github_pages)
    /\ c.cssConfig.github_raw # c.cssConfig.github_pages

\* C3 (fallback correctness and ordering): for an asset with primary URL P
\* and secondary URL S, a GET on S is issued only after all maxAttempts GETs
\* on P, none of which returned 2xx; and a call whose GETs on P all failed
\* and that received a 2xx from S returns the body of that response.
C3_FallbackOrdering ==
    \A p \in Procs :
        LET c == call[p]
            onP == GetsOn(c, RequestUrl(c.cssConfig.github_raw))
            onS == GetsOn(c, RequestUrl(c.cssConfig.github_pages))
        IN  (c.op = "loadCSS" /\ TwoSources(c)) =>
              /\ \A k \in onS :
                    /\ \A j \in onP : j < k /\ c.log[j].status = "fail"
                    /\ Cardinality(onP) = c.log[1].maxAttempts
              /\ \A k \in onS :
                    ( /\ c.pc = "done"
                      /\ \A j \in onP : c.log[j].status = "fail"
                      /\ c.log[k].status = "ok" )
                    => c.result = [kind |-> "ok", content |-> c.log[k].body]

\* The backoff waits of the GETs k of the log, added up.
RECURSIVE SumWaits(_, _)
SumWaits(c, ks) ==
    IF ks = {} THEN 0
    ELSE LET k == CHOOSE x \in ks : TRUE
         IN  c.log[k].wait + SumWaits(c, ks \ {k})

\* C4 (backoff scaling): in every retry-fetch run, the first attempt follows
\* no wait; attempt i+1 follows the failed attempt i of the same run and a
\* wait of exactly delayMs * (i + 1); a wait is pending only after a failed
\* attempt that is not the last, so none follows a success or the last
\* attempt; a fully failed run of n attempts has waited delayMs * n*(n-1)/2.
C4_BackoffScaling ==
    \A p \in Procs :
        LET c == call[p]
            n == Len(c.log)
        IN  /\ \A k \in 1..n :
                LET e == c.log[k]
                IN  /\ e.i = 0 => e.wait = 0
                    /\ e.i > 0 =>
                         /\ e.wait = e.delay * e.i
                         /\ c.log[k - 1].phase = e.phase
                         /\ c.log[k - 1].i = e.i - 1
                         /\ c.log[k - 1].status = "fail"
            /\ c.pc = "sleep" =>
                 /\ c.log[n].status = "fail"
                 /\ c.log[n].i < c.log[n].maxAttempts - 1
                 /\ c.sleepMs = c.log[n].delay * (c.log[n].i + 1)
                 /\ c.wakeAt <= now + c.sleepMs
            /\ c.pc # "sleep" => c.sleepMs = 0
            /\ \A ph \in {"primary", "fallback", "direct"} :
                 LET run == RunOf(c, ph)
                     m == Cardinality(run)
                 IN  ( /\ run # {}
                       /\ \A k \in run : c.log[k].status = "fail"
                       /\ c.pc = "done" \/ ph # c.phase )
                     => \A k \in run :
                           /\ m = c.log[k].maxAttempts
                           /\ 2 * SumWaits(c, run) = c.log[k].delay * m * (m - 1)

\* A run of 3 attempts with delayMs = 1000 has failed: it waited 1000, then
\* 2000.
C4_Witness ==
    /\ call[1].pc = "done"
    /\ Len(call[1].log) = 3
    /\ \A k \in 1..3 : call[1].log[k].status = "fail" /\ call[1].log[k].delay = 1000
    /\ call[1].log[2].wait = 1000
    /\ call[1].log[3].wait = 2000

\* The embedded default configuration, as the claim gives it.
C5_EmbeddedDefault ==
    [version |-> "1.0.0",
     css |-> [n \in {"popup"} |->
                 [github_raw |-> <<"https://raw.githubusercontent.com/pokessniper/pokesnipe-assets/main/styles/popup.css">>,
                  github_pages |-> <<>>,
                  fallback |-> <<"inline">>]],
     cdn_config |-> [primary_host |-> "github_raw",
                     cache_duration |-> 300000,
                     retry_attempts |-> 3,
                     retry_delay |-> 1000],
     update_check_url |-> <<>>]

\* C5 (config fallback): resolveConfig always returns a configuration, which
\* is then the active one; when its GET raised a network error, returned a
\* non-2xx status or a body that is not JSON, that configuration is the
\* embedded default exactly, whatever was active before.
C5_ConfigFallback ==
    cfgCall.pc = "done" =>
        /\ cfgCall.ret # None
        /\ config = cfgCall.ret
        /\ cfgCall.outcome \in {"net_error", "http_error", "bad_json"}
              => cfgCall.ret = <<C5_EmbeddedDefault>>

\* resolveConfig has just fallen back to the default on an undecodable body
\* while a load started under the remote configuration A is in flight.
C5_Witness ==
    /\ cfgCall.pc = "done"
    /\ cfgCall.outcome = "bad_json"
    /\ config = <<C5_EmbeddedDefault>>
    /\ call[1].pc = "fetch"
    /\ call[1].cssConfig.github_pages = <<UrlS>>

\* C6 (update detection): checkForUpdates always returns a boolean.  Called
\* with no active configuration or no updateCheckUrl (as after a fallback to
\* the embedded default) it returns false without a GET; otherwise it issues
\* one GET and returns true exactly when the response is 2xx, decodable, and
\* its version differs from the active configuration's version.
C6_UpdateDetection ==
    /\ [](updCall.pc = "done" =>
            /\ updCall.gets = 0 =>
                 /\ updCall.ret = FALSE
                 /\ config = None \/ ~TruthyStr(config[1].update_check_url)
            /\ updCall.gets # 0 =>
                 /\ updCall.gets = 1
                 /\ updCall.ret = ( /\ updCall.outcome = "ok"
                                    /\ updCall.remoteVersion # config[1].version ))
    /\ [][(updCall.pc = "idle" /\ updCall'.pc # "idle") =>
             IF config = None \/ config[1].update_check_url \in {<<>>, <<"">>}
             THEN updCall'.pc = "done" /\ updCall'.ret = FALSE /\ updCall'.gets = 0
             ELSE updCall'.pc = "fetch" /\ updCall'.gets = 1]_vars

\* checkForUpdates has just returned true: the remote version differs.
C6_Witness ==
    /\ updCall.pc = "done"
    /\ updCall.ret = TRUE
    /\ updCall.outcome = "ok"
    /\ updCall.remoteVersion # config[1].version

\* C7 (precondition errors): loadAsset(n) called with no active
\* configuration fails with NotConfiguredError, and called with a name that
\* is not among the active configuration's css assets fails with
\* AssetNotFoundError; either way no GET is issued and the cache is left as
\* it was.
C7_PreconditionErrors ==
    [][\A p \in Procs, n \in AssetNames :
          (Starts(p, n) /\ ~Configured(n)) =>
              /\ call'[p].pc = "done"
              /\ call'[p].result.kind =
                    IF config = None THEN "NotConfiguredError"
                    ELSE "AssetNotFoundError"
              /\ call'[p].log = <<>>
              /\ cache' = cache]_vars

\* The asset has a second URL to fall back to.
HasFallbackUrl(c) ==
    TruthyStr(c.cssConfig.github_raw) /\ TruthyStr(c.cssConfig.github_pages)

\* C8 (terminal error only after exhaustion): a loadAsset call that fails
\* with AssetLoadError has received no 2xx response and has issued
\* maxAttempts GETs against the primary URL and, if the asset has a second
\* URL, against that one too.
C8_ErrorOnlyAfterExhaustion ==
    \A p \in Procs :
        LET c == call[p]
        IN  ( /\ c.pc = "done"
              /\ c.op = "loadCSS"
              /\ c.result.kind = "AssetLoadError" )
            => /\ \A k \in 1..Len(c.log) : c.log[k].status = "fail"
               /\ \A k \in RunOf(c, "primary") :
                     Cardinality(RunOf(c, "primary")) = c.log[k].maxAttempts
               /\ RunOf(c, "primary") # {}
               /\ HasFallbackUrl(c) =>
                     /\ RunOf(c, "fallback") # {}
                     /\ \A k \in RunOf(c, "fallback") :
                           Cardinality(RunOf(c, "fallback")) = c.log[k].maxAttempts

\* C9 (retry-fetch stops at the first success): the GETs of a run are issued
\* one at a time, attempt i+1 only after attempt i failed, and at most
\* maxAttempts of them; no GET of the run follows a 2xx response.  A run
\* called directly returns the body of its 2xx response, or the no-content
\* sentinel exactly when all maxAttempts GETs failed.
C9_StopsAtFirstSuccess ==
    \A p \in Procs :
        LET c == call[p]
            n == Len(c.log)
        IN  /\ \A k \in 1..n :
                /\ c.log[k].i < c.log[k].maxAttempts
                /\ c.log[k].status = "pending" => k = n /\ c.pc = "fetch"
                /\ k = 1 => c.log[k].i = 0
                /\ k < n =>
                     IF c.log[k + 1].phase = c.log[k].phase
                     THEN /\ c.log[k].status = "fail"
                          /\ c.log[k + 1].i = c.log[k].i + 1
                     ELSE c.log[k + 1].i = 0
            /\ c.pc = "fetch" => n > 0 /\ c.log[n].status = "pending"
            /\ (c.pc = "done" /\ c.op = "fetchWithRetry") =>
                 /\ n > 0
                 /\ c.result.kind \in {"text", "null"}
                 /\ c.result.kind = "text" =>
                       /\ c.log[n].status = "ok"
                       /\ c.result.content = c.log[n].body
                 /\ c.result.kind = "null" <=>
                       /\ n = c.log[n].maxAttempts
                       /\ \A k \in 1..n : c.log[k].status = "fail"

\* A run called directly has returned the body of its second GET, the first
\* having failed.
C9_Witness ==
    /\ call[1].pc = "done"
    /\ call[1].op = "fetchWithRetry"
    /\ Len(call[1].log) = 2
    /\ call[1].log[1].status = "fail"
    /\ call[1].log[2].status = "ok"
    /\ call[1].result = [kind |-> "text", content |-> "a"]

\* C10 (fallback eligibility): after the retry-fetch on the first URL ended
\* with all its GETs failed, a second URL is tried only if both sources are
\* configured and differ, and it is not the URL already tried; otherwise the
\* call ends with AssetLoadError after at most maxAttempts GETs.
C10_FallbackEligibility ==
    \A p \in Procs :
        LET c == call[p]
            first == RunOf(c, "primary")
        IN  ( /\ c.op = "loadCSS"
              /\ first # {}
              /\ \A k \in first : c.log[k].status = "fail" )
            => /\ \A k \in RunOf(c, "fallback") :
                     /\ TwoSources(c)
                     /\ c.log[k].url # RequestUrl(c.primaryUrl)
               /\ (c.pc = "done" /\ ~TwoSources(c)) =>
                     /\ c.result.kind = "AssetLoadError"
                     /\ \A k \in first : Len(c.log) <= c.log[k].maxAttempts

\* C11 (no coalescing, last writer wins): a loadAsset(n) call started while
\* another loadAsset(n) call is suspended at a fetch or a backoff, with no
\* fresh entry for n, issues a GET of its own and leaves the other call as it
\* is; a call that ends does not touch the other call; and whenever a call
\* ends with content obtained from the network, that content is the body of
\* its own last GET and the cache entry holds it with the current time,
\* whatever the other call wrote before.
C11_NoCoalescing ==
    /\ [](\A p \in Procs :
            LET c == call[p]
            IN  ( /\ c.pc = "done"
                  /\ c.op = "loadCSS"
                  /\ c.result.kind = "ok"
                  /\ c.log # <<>> )
                => /\ c.log[Len(c.log)].status = "ok"
                   /\ c.result.content = c.log[Len(c.log)].body
                   /\ CacheKey(c.assetName) \in DOMAIN cache
                   /\ cache[CacheKey(c.assetName)] =
                         [content |-> c.result.content, timestamp |-> now])
    /\ [][\A p \in Procs : \A q \in Procs \ {p} :
             /\ \A n \in AssetNames :
                   ( /\ Starts(p, n)
                     /\ Configured(n)
                     /\ ~HasFresh(n)
                     /\ call[q].pc \in {"fetch", "sleep"}
                     /\ call[q].op = "loadCSS"
                     /\ call[q].assetName = n )
                   => /\ call'[p].pc = "fetch"
                      /\ Len(call'[p].log) = 1
                      /\ call'[p].log[1].status = "pending"
                      /\ call'[q] = call[q]
             /\ (call[p].pc # "done" /\ call'[p].pc = "done")
                   => call'[q] = call[q]]_vars

\* A call that used all four of its GETs (two on each source, with the two
\* backoff waits) has just ended with the body "b" and written it, while
\* another call for the same asset returned the body "a" at this very
\* instant: the entry holds what the call that ended last wrote.
C11_Witness ==
    /\ \E p \in Procs :
          /\ call[p].pc = "done"
          /\ call[p].assetName = "popup"
          /\ call[p].result = [kind |-> "ok", content |-> "b"]
          /\ Len(call[p].log) = 4
    /\ lastRet = <<[assetName |-> "popup", content |-> "a", at |-> now]>>
    /\ cache["css_popup"] = [content |-> "b", timestamp |-> now]
    /\ config = <<RemoteA>>

\* C12 (the active configuration is changed only by resolveConfig): a step
\* that changes the active configuration is the step in which resolveConfig
\* receives its response, and it changes nothing of loadAsset, the
\* retry-fetch, checkForUpdates, cacheInfo or the cache; every step of those
\* operations and of clearCache leaves the active configuration as it is;
\* and when resolveConfig returns, the active configuration is the value it
\* returns.
C12_ConfigFrame ==
    /\ [](cfgCall.pc = "done" => cfgCall.ret # None /\ config = cfgCall.ret)
    /\ [][/\ config' # config =>
                /\ cfgCall.pc = "fetch"
                /\ cfgCall'.pc = "done"
                /\ config' = cfgCall'.ret
          /\ ( \/ call' # call
               \/ updCall' # updCall
               \/ infoCall' # infoCall
               \/ cache' # cache ) => config' = config]_vars

\* checkForUpdates has just found the remote version "2.0.1" while the
\* configuration A (version "2.0.0") is active and the cache holds an entry:
\* A is still the active configuration.
C12_Witness ==
    /\ updCall.pc = "done"
    /\ updCall.ret = TRUE
    /\ updCall.remoteVersion = "2.0.1"
    /\ config = <<RemoteA>>
    /\ cache # EmptyCache

\* Call p ends in this step, as a loadAsset call with content it obtained
\* from the network.
EndsWithFetched(p) ==
    /\ call[p].pc # "done"
    /\ call'[p].pc = "done"
    /\ call'[p].op = "loadCSS"
    /\ call'[p].result.kind = "ok"
    /\ call'[p].log # <<>>

\* C13 (store on success): the step in which a loadAsset(name) call ends
\* with content obtained from the network leaves the cache with exactly the
\* returned content under "css_" + name, stamped with the clock value of
\* that step, and with every other key's entry as it was.
C13_StoreOnSuccess ==
    [][\A p \in Procs :
          EndsWithFetched(p) =>
              /\ now' = now
              /\ DOMAIN cache' = DOMAIN cache \cup {"css_" \o call'[p].assetName}
              /\ \A k \in DOMAIN cache' :
                    cache'[k] = IF k = "css_" \o call'[p].assetName
                                THEN [content |-> call'[p].result.content,
                                      timestamp |-> now]
                                ELSE cache[k]]_vars

\* A call for popup has just ended with the body of its second GET, issued
\* after a backoff wait: the entry is stamped with the present time, later
\* than the time of the call, and the older entry of theme is still there.
C13_Witness ==
    /\ call[1].pc = "done"
    /\ call[1].assetName = "popup"
    /\ call[1].result.kind = "ok"
    /\ Len(call[1].log) = 2
    /\ call[1].log[2].wait > 0
    /\ cache["css_popup"].timestamp = now
    /\ "css_theme" \in DOMAIN cache
    /\ cache["css_theme"].timestamp < now

\* C14 (cache entries change only by a successful overwrite or a clear): a
\* step that changes the cache either empties it and touches no call
\* (clearCache), or is the end of a loadAsset call with content from the
\* network and changes the entry of that call's key only; a call that ends
\* with an error, a step of resolveConfig, checkForUpdates or cacheInfo, and
\* the passing of time (which makes entries stale) leave the cache as it is.
C14_CacheFrame ==
    [][/\ cache' # cache =>
            \/ /\ cache' = EmptyCache
               /\ call' = call
            \/ \E p \in Procs :
                  /\ EndsWithFetched(p)
                  /\ DOMAIN cache \subseteq DOMAIN cache'
                  /\ \A k \in DOMAIN cache' \ {"css_" \o call'[p].assetName} :
                        k \in DOMAIN cache /\ cache'[k] = cache[k]
       /\ \A p \in Procs :
            ( /\ call[p].pc # "done"
              /\ call'[p].pc = "done"
              /\ call'[p].result.kind \notin {"ok", "text"} ) => cache' = cache
       /\ ( \/ cfgCall' # cfgCall
            \/ updCall' # updCall
            \/ infoCall' # infoCall
            \/ now' # now ) => cache' = cache]_vars

\* A call that tried to refresh the stale entry of popup has just failed with
\* AssetLoadError: the stale entry is still in the cache.
C14_Witness ==
    /\ call[1].pc = "done"
    /\ call[1].assetName = "popup"
    /\ call[1].result.kind = "AssetLoadError"
    /\ call[1].log # <<>>
    /\ HasStale("popup")
    /\ cache["css_popup"].content = "a"

\* This step is a clearCache (seen by what the observer notes of it).
ClearStep ==
    /\ note'.cleared
    /\ note'.started = <<>>
    /\ note' # note

\* C15 (clearCache): a clearCache leaves the cache empty, whatever it held
\* and whether or not a configuration is active, and issues no GET (every
\* call is left as it was); and when no loadAsset call was in flight at the
\* clear, the first loadAsset call after it for an asset whose fresh entry
\* the clear removed has a GET pending after its first step.
C15_ClearCache ==
    [][/\ ClearStep =>
            /\ DOMAIN cache' = {}
            /\ call' = call
            /\ updCall' = updCall
            /\ cfgCall' = cfgCall
       /\ \A p \in Procs, n \in AssetNames :
            ( /\ Starts(p, n)
              /\ Configured(n)
              /\ n \in note.wiped
              /\ n \notin note.loaded )
            => /\ call'[p].pc = "fetch"
               /\ Len(call'[p].log) = 1
               /\ call'[p].log[1].status = "pending"]_vars

\* The clear removed the fresh entry of popup while no call was in flight;
\* the only call started since is a loadAsset("popup"), and its GET is
\* pending.
C15_Witness ==
    /\ note.cleared
    /\ "popup" \in note.wiped
    /\ note.started = <<"popup">>
    /\ \E p \in Procs :
          /\ call[p].pc = "fetch"
          /\ call[p].assetName = "popup"
          /\ Len(call[p].log) = 1
    /\ \A k \in DOMAIN cache : cache[k].timestamp = now

C17_RetryParameters ==
    /\ [](\A p \in Procs :
            ( /\ call[p].pc = "done"
              /\ call[p].op = "fetchWithRetry"
              /\ call[p].result.kind = "null" )
            => \A k \in 1..Len(call[p].log) :
                  Len(call[p].log) = call[p].log[k].maxAttempts)
    /\ [][\A p \in Procs :
             ( /\ config # None
               /\ Len(call'[p].log) = Len(call[p].log) + 1
               /\ call'[p].log[Len(call'[p].log)].i = 0 )
             => LET e == call'[p].log[Len(call'[p].log)]
                IN  /\ e.maxAttempts =
                          IF call'[p].attempts # None
                          THEN call'[p].attempts[1]
                          ELSE config[1].cdn_config.retry_attempts
                    /\ e.delay = config[1].cdn_config.retry_delay]_vars

\* The asset names that some configuration the loader can be given
\* configures.
EverConfiguredNames ==
    DOMAIN DefaultConfig.css \cup UNION {DOMAIN c.css : c \in RemoteConfigs}

\* C18 (cache well-formedness): every cache entry has non-empty content, a
\* key "css_" + name for a name that a configuration configures, and a
\* timestamp not later than the clock; and the step in which a GET returns
\* 2xx with an empty body leaves the cache as it is.
C18_CacheWellFormed ==
    /\ [](\A k \in DOMAIN cache :
            /\ cache[k].content # ""
            /\ cache[k].timestamp <= now
            /\ \E n \in EverConfiguredNames : k = "css_" \o n)
    /\ [][\A p \in Procs :
             ( /\ call[p].pc = "fetch"
               /\ call'[p].pc # "fetch" \/ Len(call'[p].log) > Len(call[p].log)
               /\ call'[p].log[Len(call[p].log)].status = "ok"
               /\ call'[p].log[Len(call[p].log)].body = "" )
             => cache' = cache]_vars

\* C19 (reloading the configuration does not invalidate the cache): the
\* step in which resolveConfig replaces the active configuration leaves the
\* cache as it is; and a loadAsset(n) call for a configured n that finds the
\* entry that was in the cache at the replacement, of age below the new
\* configuration's cacheDurationMs, returns that entry's content without a
\* GET.
C19_ReloadKeepsCache ==
    [][/\ (cfgCall.pc = "fetch" /\ cfgCall'.pc = "done") => cache' = cache
       /\ \A p \in Procs, n \in AssetNames :
            ( /\ Starts(p, n)
              /\ Configured(n)
              /\ ("css_" \o n) \in DOMAIN note.old
              /\ ("css_" \o n) \in DOMAIN cache
              /\ cache["css_" \o n] = note.old["css_" \o n]
              /\ now - cache["css_" \o n].timestamp
                    < config[1].cdn_config.cache_duration )
            => ServedFromCache(call'[p], note.old["css_" \o n].content)]_vars

\* The default configuration has replaced the remote configuration A, which
\* gave popup other source URLs; a loadAsset("popup") has just been served,
\* without a GET, from the entry that was in the cache at the replacement.
C19_Witness ==
    /\ config = <<DefaultConfig>>
    /\ note.oldVersion = "2.0.0"
    /\ "css_popup" \in DOMAIN note.old
    /\ cache["css_popup"] = note.old["css_popup"]
    /\ call[1].assetName = "popup"
    /\ ServedFromCache(call[1], note.old["css_popup"].content)
    /\ now - cache["css_popup"].timestamp >= RemoteA.cdn_config.cache_duration

\* C20 (clearCache does not cancel loads in flight): a clearCache leaves
\* every suspended call as it is; a call that ends with content after the
\* clear, no call having been started since, obtained it from the network
\* and has written it into the cache; and a loadAsset(n) started as the
\* first call after the clear, finding such an entry fresh, is served from
\* it without a GET.
C20_ClearDoesNotCancel ==
    /\ [](\A p \in Procs :
            ( /\ note.cleared
              /\ note.started = <<>>
              /\ call[p].pc = "done"
              /\ call[p].result.kind = "ok" )
            => /\ call[p].log # <<>>
               /\ CacheKey(call[p].assetName) \in DOMAIN cache
               /\ cache[CacheKey(call[p].assetName)] =
                     [content |-> call[p].result.content, timestamp |-> now])
    /\ [][/\ ClearStep => call' = call
          /\ \A p \in Procs, n \in AssetNames :
                ( /\ Starts(p, n)
                  /\ note.cleared
                  /\ note.started = <<>>
                  /\ Configured(n)
                  /\ HasFresh(n) )
                => ServedFromCache(call'[p], cache["css_" \o n].content)]_vars

\* The only call started since the clear is a loadAsset("popup") that has
\* just been served from the cache without a GET: the entry was written
\* after the clear by a call that was in flight when the clear ran.
C20_Witness ==
    /\ note.cleared
    /\ note.started = <<"popup">>
    /\ \E p \in Procs :
          /\ call[p].assetName = "popup"
          /\ ServedFromCache(call[p], "a")
    /\ "css_popup" \in DOMAIN cache

====
